---- MODULE Spec2Model ----
(***************************************************************************)
(* The SIM800 AT-command engine of src/sim800: the write path SIM800.AT,   *)
(* the reader thread SIM800._reader / SIM800.process, cancellation by      *)
(* SIM800.remove_pending, SIM800.monitor and SIM800.stop, the properties   *)
(* of Session State, and the command descriptors of commands.py.           *)
(* Python strings are TLA+ strings; slicing, split, strip and int() are     *)
(* computed character by character.                                         *)
(***************************************************************************)
EXTENDS Integers, Sequences, FiniteSets, TLC

\* ---------------------------------------------------------------- bounds
\* caller threads
NumCallers == 2
\* execute calls over a whole run
MaxCalls == 2
\* lines the module pushes on its own, over a whole run
MaxUnsol == 1
\* execute calls of the one caller whose commands are answered in send order
MaxOrderCalls == 3
\* reader threads running besides the one self._reader_thread refers to
MaxOrphans == 2

Callers == 1..NumCallers
CallIds == 1..(IF MaxCalls > MaxOrderCalls THEN MaxCalls ELSE MaxOrderCalls)

\* ------------------------------------------------------- Python strings
Min(a, b) == IF a < b THEN a ELSE b

\* s[i] of Python, 0-based, as a one-character string
CharAt(s, i) == SubSeq(s, i + 1, i + 1)

\* s[n:]
DropStr(s, n) == SubSeq(s, Min(n, Len(s)) + 1, Len(s))

\* s[:n]
TakeStr(s, n) == SubSeq(s, 1, Min(n, Len(s)))

\* s[1:-1]
Inner(s) == SubSeq(s, 2, Len(s) - 1)

\* s.startswith(p)
StartsWith(s, p) == TakeStr(s, Len(p)) = p

\* c in s, for a one-character c
Contains(s, c) == \E i \in 1..Len(s) : SubSeq(s, i, i) = c

Whitespace == {" ", "\t", "\r", "\n"}

RECURSIVE LStrip(_)
LStrip(s) ==
    IF Len(s) > 0 /\ SubSeq(s, 1, 1) \in Whitespace
    THEN LStrip(SubSeq(s, 2, Len(s)))
    ELSE s

RECURSIVE RStrip(_)
RStrip(s) ==
    IF Len(s) > 0 /\ SubSeq(s, Len(s), Len(s)) \in Whitespace
    THEN RStrip(SubSeq(s, 1, Len(s) - 1))
    ELSE s

\* s.strip()
Strip(s) == LStrip(RStrip(s))

\* position (1-based) of the first c in s, 0 when there is none
RECURSIVE FindFrom(_, _, _)
FindFrom(s, c, i) ==
    IF i > Len(s) THEN 0
    ELSE IF SubSeq(s, i, i) = c THEN i
    ELSE FindFrom(s, c, i + 1)

\* s.split(c): never empty, '' splits to ['']
RECURSIVE Split(_, _)
Split(s, c) ==
    LET p == FindFrom(s, c, 1)
    IN  IF p = 0 THEN <<s>>
        ELSE <<SubSeq(s, 1, p - 1)>> \o Split(SubSeq(s, p + 1, Len(s)), c)

DigitVal(c) ==
    CASE c = "0" -> 0 [] c = "1" -> 1 [] c = "2" -> 2 [] c = "3" -> 3
      [] c = "4" -> 4 [] c = "5" -> 5 [] c = "6" -> 6 [] c = "7" -> 7
      [] c = "8" -> 8 [] c = "9" -> 9 [] OTHER -> -1

RECURSIVE DigitsVal(_, _)
DigitsVal(s, acc) ==
    IF Len(s) = 0 THEN acc
    ELSE IF DigitVal(SubSeq(s, 1, 1)) < 0 THEN -1
    ELSE DigitsVal(SubSeq(s, 2, Len(s)), 10 * acc + DigitVal(SubSeq(s, 1, 1)))

\* int(s): surrounding whitespace and one sign are accepted; anything else
\* raises ValueError (ok = FALSE)
ParseInt(s) ==
    LET t == Strip(s)
        neg == Len(t) > 0 /\ SubSeq(t, 1, 1) = "-"
        sgn == Len(t) > 0 /\ SubSeq(t, 1, 1) \in {"-", "+"}
        d == IF sgn THEN SubSeq(t, 2, Len(t)) ELSE t
        v == IF Len(d) = 0 THEN -1 ELSE DigitsVal(d, 0)
    IN  [ok |-> v >= 0, v |-> IF v < 0 THEN 0 ELSE IF neg THEN 0 - v ELSE v]

DigitChar(d) ==
    CASE d = 0 -> "0" [] d = 1 -> "1" [] d = 2 -> "2" [] d = 3 -> "3"
      [] d = 4 -> "4" [] d = 5 -> "5" [] d = 6 -> "6" [] d = 7 -> "7"
      [] d = 8 -> "8" [] OTHER -> "9"

RECURSIVE NatStr(_)
NatStr(n) == IF n < 10 THEN DigitChar(n) ELSE NatStr(n \div 10) \o DigitChar(n % 10)

\* '%s' % n and '%d' % n
IntStr(n) == IF n < 0 THEN "-" \o NatStr(0 - n) ELSE NatStr(n)

\* sep.join(parts)
RECURSIVE Join(_, _)
Join(sep, parts) ==
    IF Len(parts) = 0 THEN ""
    ELSE IF Len(parts) = 1 THEN parts[1]
    ELSE parts[1] \o sep \o Join(sep, Tail(parts))

\* ------------------------------------------------------- Python values
\* None, bool, int, str, tuple (int, str), list of str, threading.Lock
PyNone == [tag |-> "None", n |-> 0, s |-> "", l |-> <<>>]
PyBool(b) == [tag |-> "bool", n |-> IF b THEN 1 ELSE 0, s |-> "", l |-> <<>>]
PyInt(n) == [tag |-> "int", n |-> n, s |-> "", l |-> <<>>]
PyStr(s) == [tag |-> "str", n |-> 0, s |-> s, l |-> <<>>]
PyPair(n, s) == [tag |-> "tuple", n |-> n, s |-> s, l |-> <<>>]
PyList(l) == [tag |-> "list", n |-> 0, s |-> "", l |-> l]
PyLock(id) == [tag |-> "Lock", n |-> id, s |-> "", l |-> <<>>]

\* truth value of a Python value
Truthy(v) ==
    CASE v.tag = "None" -> FALSE
      [] v.tag = "bool" -> v.n = 1
      [] v.tag = "int" -> v.n # 0
      [] v.tag = "str" -> v.s # ""
      [] v.tag = "list" -> v.l # <<>>
      [] OTHER -> TRUE

\* -------------------------------------------------- command descriptors
\* SIM800.COMMANDS after sim800/__init__.py registered every ATCommand subclass
COMMANDS ==
    {"AT", "ATE0", "CSQ", "CREG", "CGATT", "CSTT", "CIPSHUT", "CIPSTATUS",
     "CIPMUX", "CIICR", "CPIN", "COPS", "CIFSR"}

\* ATCommand.__init__; "" stands for an argument left at None
ATCommand_init(cls, command, expected, keyword) ==
    LET c == IF command # "" THEN command ELSE cls
    IN  [name     |-> cls,
         command  |-> IF TakeStr(c, 2) = "AT" THEN c ELSE "AT+" \o c,
         expected |-> expected,
         keyword  |-> IF keyword # "" THEN keyword ELSE "+" \o c \o ":",
         delay    |-> 0]

\* SIM800.COMMANDS[command](self): the constructor of each descriptor class
Descriptor(cls) ==
    CASE cls = "AT" -> ATCommand_init(cls, "", TRUE, "OK")
      [] cls = "ATE0" -> ATCommand_init(cls, "", FALSE, "")
      [] cls = "CSQ" -> ATCommand_init(cls, "CSQ", TRUE, "")
      [] cls = "CSTT" -> ATCommand_init(cls, "", FALSE, "")
      [] cls = "CIPSHUT" -> ATCommand_init(cls, "", TRUE, "SHUT")
      [] cls = "CIPSTATUS" -> ATCommand_init(cls, "", TRUE, "STATE:")
      [] cls = "CIPMUX" -> ATCommand_init(cls, "", FALSE, "")
      [] cls = "CIICR" -> ATCommand_init(cls, "", FALSE, "")
      [] OTHER -> ATCommand_init(cls, "", TRUE, "")

\* the byte 0x1A ('\x1a'), which no TLA+ string escape writes
CtrlZ == "^Z"

\* ATCommand.__call__: the text handed to write()
Encode(d, params, data) ==
    LET p == CASE params.tag = "None" -> ""
               [] params.tag = "int" -> "=" \o IntStr(params.n)
               [] params.tag = "str" ->
                    IF params.s = "?" THEN "?" ELSE "=\"" \o params.s \o "\""
               [] OTHER -> "=\"" \o Join("\",\"", params.l) \o "\""
        body == IF Truthy(data) THEN data.s \o CtrlZ ELSE ""
    IN  d.command \o p \o "\r\n" \o body

\* ATCommand.__call__ as it would be if it returned the keyword whatever
\* self._expected is
CallResult_Always(d) == PyStr(d.keyword)

\* ATCommand.__call__: its return value, self._expected and self._keyword
CallResult(d) == IF d.expected THEN PyStr(d.keyword) ELSE PyBool(FALSE)

\* ------------------------------------------------------------- decoders
\* Session State of a SIM800 object after __init__
SessionInit ==
    [ip_status |-> PyNone, reg_status |-> PyNone, network |-> PyNone,
     gprs_status |-> PyNone, ip_address |-> PyNone]

\* the depth of calls at which the interpreter raises RecursionError
RecursionLimit == 8

\* the properties of modules.py 26-64
Properties == {"ip_status", "reg_status", "network", "gprs_status", "ip_address"}

\* what a read of a property gave: the exception it raised ("" for none) and
\* the value it returned
Got(field, v) == [field |-> field, exc |-> "", value |-> v]
Failed(field, e) == [field |-> field, exc |-> e, value |-> PyNone]

\* no property was read yet
NoRead == Got("", PyNone)

\* lines 26-60: the getter of a property, entered at a depth of calls; four
\* getters return the attribute, the getter of ip_address reads the property
\* ip_address, which enters the getter again
RECURSIVE Getter(_, _, _)
Getter(field, sess, depth) ==
    IF depth > RecursionLimit THEN Failed(field, "RecursionError")
    ELSE IF field = "ip_address" THEN Getter("ip_address", sess, depth + 1)
    ELSE Got(field, sess[field])

\* what a process() call did: the exception it raised ("" for none), the
\* value it returned, and Session State when it ended
Returned(v, sess) == [exc |-> "", result |-> v, sess |-> sess]
Raised(e, sess) == [exc |-> e, result |-> PyNone, sess |-> sess]

AT_process(line, sess) == Returned(PyBool(line = "OK"), sess)

ATCommand_process(line, sess) == Returned(PyStr(line), sess)

CSQ_label(rssi) ==
    IF rssi = 0 THEN PyPair(rssi, "<= -115 dBm")
    ELSE IF rssi = 1 THEN PyPair(rssi, "-111 dBm")
    ELSE IF rssi > 1 /\ rssi < 31 THEN PyPair(rssi, IntStr(2 * rssi - 114) \o " dBm")
    ELSE IF rssi = 31 THEN PyPair(rssi, ">= -52 dBm")
    ELSE PyPair(rssi, "Unknown")

\* except OSError does not catch the ValueError of int()
CSQ_process(line, sess) ==
    IF StartsWith(line, "+CSQ: ")
    THEN LET p == ParseInt(Split(DropStr(line, 6), ",")[1])
         IN  IF p.ok THEN Returned(CSQ_label(p.v), sess)
             ELSE Raised("ValueError", sess)
    ELSE Returned(CSQ_label(99), sess)

CREG_STAT(status) ==
    CASE status = 0 -> "Not searching for network"
      [] status = 1 -> "Registered, home network"
      [] status = 2 -> "Searching for network"
      [] status = 3 -> "Registration denied"
      [] status = 4 -> "Unknown"
      [] OTHER -> "Registered, roaming"

CREG_process(line, sess) ==
    LET fields == Split(DropStr(line, 7), ",")
        p == IF Len(fields) = 2 \/ Len(fields) = 4
             THEN ParseInt(fields[2]) ELSE ParseInt(fields[1])
        status == IF p.v < 0 \/ p.v > 5 THEN 4 ELSE p.v
    IN  IF p.ok
        THEN Returned(PyPair(status, CREG_STAT(status)),
                      [sess EXCEPT !.reg_status = PyInt(status)])
        ELSE Raised("ValueError", sess)

CGATT_STAT(status) ==
    CASE status = -1 -> "Unknown" [] status = 0 -> "Detached" [] OTHER -> "Attached"

\* gprs_status is written before the STAT lookup can raise KeyError
CGATT_process(line, sess) ==
    LET p == ParseInt(DropStr(line, 8))
        written == [sess EXCEPT !.gprs_status = PyInt(p.v)]
    IN  IF ~p.ok THEN Raised("ValueError", sess)
        ELSE IF p.v \in {-1, 0, 1}
        THEN Returned(PyPair(p.v, CGATT_STAT(p.v)), written)
        ELSE Raised("KeyError", written)

CIPSHUT_process(line, sess) ==
    Returned(IF Strip(line) = "SHUT OK" THEN PyBool(TRUE) ELSE PyNone, sess)

CIPSTATUS_process(line, sess) ==
    Returned(PyStr(DropStr(line, 7)),
             [sess EXCEPT !.ip_status = PyStr(DropStr(line, 7))])

CPIN_process(line, sess) ==
    Returned(IF line = "+CPIN: READY" THEN PyBool(TRUE) ELSE PyNone, sess)

COPS_process(line, sess) ==
    LET fields == Split(line, ",")
    IN  IF Len(fields) < 3 THEN Raised("IndexError", sess)
        ELSE Returned(PyStr(Inner(fields[3])),
                      [sess EXCEPT !.network = PyStr(Inner(fields[3]))])

CIFSR_process(line, sess) ==
    Returned(PyStr(line), [sess EXCEPT !.ip_address = PyStr(line)])

\* command_obj.process(line), by the class of command_obj
Process(cls, line, sess) ==
    CASE cls = "AT" -> AT_process(line, sess)
      [] cls = "CSQ" -> CSQ_process(line, sess)
      [] cls = "CREG" -> CREG_process(line, sess)
      [] cls = "CGATT" -> CGATT_process(line, sess)
      [] cls = "CIPSHUT" -> CIPSHUT_process(line, sess)
      [] cls = "CIPSTATUS" -> CIPSTATUS_process(line, sess)
      [] cls = "CPIN" -> CPIN_process(line, sess)
      [] cls = "COPS" -> COPS_process(line, sess)
      [] cls = "CIFSR" -> CIFSR_process(line, sess)
      [] OTHER -> ATCommand_process(line, sess)

\* ---------------------------------------------------------------- state
VARIABLES
    pending,      \* self._pending: <<[keyword, obj, lock]>>, lock named by its call
    queue_lock,   \* self._queue_lock is held
    locks,        \* each call's pending_lock: "none" (not created), "locked", "unlocked"
    reading,      \* self._reading
    is_open,      \* self._serial.is_open
    session,      \* _ip_status, _reg_status, _network, _gprs_status, _ip_address
    rpc,          \* where the reader thread is
    rline,        \* _reader's line, the call it answers (re, 0 for none), and
                  \* whether that call's entry was cancelled before it was sent
    rcmd,         \* process()'s command argument
    rbound,       \* process()'s locals name and result are bound
    rexc,         \* the exception that ended the reader thread; rline and rcmd
                  \* then stay as they were when it was raised
    decoded,      \* per call, the result process() computed for its entry
    removed,      \* per call, who deleted its entry from _pending, in order
    cpc,          \* where each caller thread is
    call,         \* each caller's current call: its id, the name AT() was called
                  \* with, and the arguments of AT() after lines 67-69
    cret,         \* what each caller's last AT() returned
    wire,         \* what self._serial.write was handed, in order
    answered,     \* how many written commands the module has answered
    rx,           \* lines the module sent that readline() has not returned yet
    ncalls,       \* AT() calls made so far
    nunsol,       \* lines the module pushed on its own so far
    unhandled,    \* the lines printed as '*** unhandled by ...', in order
    seen,         \* what each caller's last read of a Session State property gave
    orphans       \* the reader threads still running that self._reader_thread
                  \* does not refer to any more

vars ==
    <<pending, queue_lock, locks, reading, is_open, session, rpc, rline, rcmd,
      rbound, rexc, decoded, removed, cpc, call, cret, wire, answered, rx,
      ncalls, nunsol, unhandled, seen, orphans>>

readerVars == <<rpc, rline, rcmd, rbound, rexc, unhandled, orphans>>
callerVars == <<cpc, call, cret, ncalls, seen>>
moduleVars == <<answered, rx, nunsol>>

\* map(lambda p: p[0], self._pending)
Keywords(q) == {q[i].keyword : i \in 1..Len(q)}

\* for i in range(...): ... break: the first of the indices S, 0 when S is empty
FirstIndex(S) == IF S = {} THEN 0 ELSE CHOOSE i \in S : \A j \in S : i <= j

\* del q[i]
DelAt(q, i) == SubSeq(q, 1, i - 1) \o SubSeq(q, i + 1, Len(q))

NoCall == [id |-> 0, name |-> "", command |-> "", params |-> PyNone,
           data |-> PyNone, return_lock |-> FALSE]

\* the arguments callers pass to AT(): calls gsm_fetch.py and sim800_test.py
\* make, and one name no class registers (commands.py 172-176 leaves CIPSTART
\* commented out)
CallInputs ==
    {[command |-> "AT", params |-> PyNone, data |-> PyNone],
     [command |-> "CREG?", params |-> PyNone, data |-> PyNone],
     [command |-> "ATE0", params |-> PyNone, data |-> PyNone],
     [command |-> "CIPSTART", params |-> PyNone, data |-> PyNone]}

\* a line the module sends in answer to a written command
Replies(cls) ==
    CASE cls = "AT" -> {"OK\r\n"}
      [] cls = "CREG" -> {"+CREG: 0,1\r\n", "+CREG: 0,\r\n"}
      [] OTHER -> {"OK\r\n"}

\* lines the module sends unprompted
Pushes == {"OK\r\n", "+CREG: 1\r\n"}

\* _reader's line before a line is read and after its iteration ended
NoLine == [text |-> "", re |-> 0, late |-> FALSE]

Init ==
    /\ pending = <<>>
    /\ queue_lock = FALSE
    /\ locks = [i \in CallIds |-> "none"]
    /\ reading = FALSE
    /\ is_open = TRUE
    /\ session = SessionInit
    /\ rpc = "none"
    /\ rline = NoLine
    /\ rcmd = ""
    /\ rbound = FALSE
    /\ rexc = ""
    /\ decoded = [i \in CallIds |-> PyNone]
    /\ removed = [i \in CallIds |-> <<>>]
    /\ cpc = [t \in Callers |-> "idle"]
    /\ call = [t \in Callers |-> NoCall]
    /\ cret = [t \in Callers |-> PyNone]
    /\ wire = <<>>
    /\ answered = 0
    /\ rx = <<>>
    /\ ncalls = 0
    /\ nunsol = 0
    /\ unhandled = <<>>
    /\ seen = [t \in Callers |-> NoRead]
    /\ orphans = 0

\* ------------------------------------------------------------ SIM800.AT
\* the descriptor object of a caller's current call
CommandObj(t) == Descriptor(call[t].command)

\* lines 66-71: the query suffix, the registry lookup, the descriptor object;
\* an unregistered name falls out of the if and returns None
AT_Call(t, in, return_lock) ==
    LET query == CharAt(in.command, Len(in.command) - 1) = "?"
        command == IF query THEN TakeStr(in.command, Len(in.command) - 1) ELSE in.command
        params == IF query THEN PyStr("?") ELSE in.params
    IN  /\ cpc[t] = "idle"
        /\ rpc # "none"
        /\ ncalls' = ncalls + 1
        /\ IF command \in COMMANDS
           THEN /\ cpc' = [cpc EXCEPT ![t] = "acquire"]
                /\ call' = [call EXCEPT ![t] = [id |-> ncalls + 1, name |-> in.command,
                                                 command |-> command,
                                                 params |-> params, data |-> in.data,
                                                 return_lock |-> return_lock]]
                /\ cret' = cret
           ELSE /\ cret' = [cret EXCEPT ![t] = PyNone]
                /\ UNCHANGED <<cpc, call>>
        /\ UNCHANGED <<pending, queue_lock, locks, reading, is_open, session,
                       readerVars, seen, decoded, removed, wire, moduleVars>>

\* AT() as it would be if it wrote without waiting for the queue lock
AT_Acquire_NoWait(t) ==
    /\ cpc[t] = "acquire"
    /\ queue_lock' = TRUE
    /\ cpc' = [cpc EXCEPT ![t] = "write"]
    /\ UNCHANGED <<pending, locks, reading, is_open, session, readerVars, seen, decoded,
                   removed, call, cret, ncalls, wire, moduleVars>>

\* line 72: self._queue_lock.acquire()
AT_Acquire(t) ==
    /\ cpc[t] = "acquire"
    /\ ~queue_lock
    /\ queue_lock' = TRUE
    /\ cpc' = [cpc EXCEPT ![t] = "write"]
    /\ UNCHANGED <<pending, locks, reading, is_open, session, readerVars, seen, decoded,
                   removed, call, cret, ncalls, wire, moduleVars>>

\* line 74: command_obj(self._serial.write, ...) hands the whole command to write()
AT_Write(t) ==
    /\ cpc[t] = "write"
    /\ wire' = Append(wire, [bytes |-> Encode(CommandObj(t), call[t].params, call[t].data),
                             cls |-> call[t].command,
                             id |-> call[t].id])
    /\ cpc' = [cpc EXCEPT ![t] = "enqueue"]
    /\ UNCHANGED <<pending, queue_lock, locks, reading, is_open, session, readerVars, seen,
                   decoded, removed, call, cret, ncalls, moduleVars>>

\* lines 75-78: a reply-expecting command gets a locked pending_lock and an entry
AT_Enqueue(t) ==
    /\ cpc[t] = "enqueue"
    /\ IF Truthy(CallResult(CommandObj(t)))
       THEN /\ locks' = [locks EXCEPT ![call[t].id] = "locked"]
            /\ pending' = Append(pending, [keyword |-> CallResult(CommandObj(t)).s,
                                           obj |-> call[t].command,
                                           lock |-> call[t].id])
       ELSE UNCHANGED <<locks, pending>>
    /\ cpc' = [cpc EXCEPT ![t] = "flush"]
    /\ UNCHANGED <<queue_lock, reading, is_open, session, readerVars, seen, decoded,
                   removed, call, cret, ncalls, wire, moduleVars>>

\* the local pending_lock of AT(): None, or the Lock it created
PendingLock(t) == IF locks[call[t].id] = "none" THEN PyNone ELSE PyLock(call[t].id)

\* line 84: return_lock and pending_lock
AT_ReturnValue(return_lock, pending_lock) ==
    IF return_lock THEN pending_lock ELSE PyBool(FALSE)

\* line 84: a caller that is handed the lock keeps it as its handle
AT_Return(t) ==
    LET v == AT_ReturnValue(call[t].return_lock, PendingLock(t))
    IN  /\ cret' = [cret EXCEPT ![t] = v]
        /\ call' = [call EXCEPT ![t] = NoCall]
        /\ cpc' = [cpc EXCEPT ![t] = IF v.tag = "Lock" THEN "handle" ELSE "idle"]

\* AT() as it would be if it never blocked on pending_lock
AT_Blocks_Never(return_lock, pending_lock) == FALSE

\* line 81: AT() goes on to block on pending_lock
AT_Blocks(return_lock, pending_lock) == return_lock = FALSE /\ Truthy(pending_lock)

\* lines 79-84: flush, release the queue lock, then block or return
AT_Release(t) ==
    /\ cpc[t] = "flush"
    /\ queue_lock' = FALSE
    /\ IF AT_Blocks(call[t].return_lock, PendingLock(t))
       THEN cpc' = [cpc EXCEPT ![t] = "wait"] /\ UNCHANGED <<cret, call>>
       ELSE AT_Return(t)
    /\ UNCHANGED <<pending, locks, reading, is_open, session, readerVars, seen, decoded,
                   removed, ncalls, wire, moduleVars>>

\* lines 82-84: pending_lock.acquire() returns once the reader released the
\* lock; release it again and return
AT_Wait(t) ==
    /\ cpc[t] = "wait"
    /\ locks[call[t].id] = "unlocked"
    /\ AT_Return(t)
    /\ UNCHANGED <<pending, queue_lock, locks, reading, is_open, session, readerVars, seen,
                   decoded, removed, ncalls, wire, moduleVars>>

\* line 74: self._serial.write raises (the port was closed or the device is
\* gone); the exception leaves AT() past line 80
AT_WriteFails(t) ==
    /\ cpc[t] = "write"
    /\ cpc' = [cpc EXCEPT ![t] = "idle"]
    /\ call' = [call EXCEPT ![t] = NoCall]
    /\ UNCHANGED <<pending, queue_lock, locks, reading, is_open, session, readerVars,
                   seen, decoded, removed, cret, ncalls, wire, moduleVars>>

\* line 79: self._serial.flush raises; the entry of lines 75-78 stays in the
\* queue and the exception leaves AT() past line 80
AT_FlushFails(t) ==
    /\ cpc[t] = "flush"
    /\ cpc' = [cpc EXCEPT ![t] = "idle"]
    /\ call' = [call EXCEPT ![t] = NoCall]
    /\ UNCHANGED <<pending, queue_lock, locks, reading, is_open, session, readerVars,
                   seen, decoded, removed, cret, ncalls, wire, moduleVars>>

\* ------------------------------------- the caller's use of a lock handle
\* sim800_test.py 18-19: lock.acquire(timeout=...) succeeds, lock.release()
Handle_Acquired(t) ==
    /\ cpc[t] = "handle"
    /\ locks[cret[t].n] = "unlocked"
    /\ cpc' = [cpc EXCEPT ![t] = "idle"]
    /\ UNCHANGED <<pending, queue_lock, locks, reading, is_open, session, readerVars, seen,
                   decoded, removed, call, cret, ncalls, wire, moduleVars>>

\* sim800_test.py 18, 21: lock.acquire(timeout=...) times out
Handle_Timeout(t) ==
    /\ cpc[t] = "handle"
    /\ locks[cret[t].n] = "locked"
    /\ cpc' = [cpc EXCEPT ![t] = "timedout"]
    /\ UNCHANGED <<pending, queue_lock, locks, reading, is_open, session, readerVars, seen,
                   decoded, removed, call, cret, ncalls, wire, moduleVars>>

\* a caller that does not cancel after its timeout
Handle_Abandon(t) ==
    /\ cpc[t] = "timedout"
    /\ cpc' = [cpc EXCEPT ![t] = "idle"]
    /\ UNCHANGED <<pending, queue_lock, locks, reading, is_open, session, readerVars, seen,
                   decoded, removed, call, cret, ncalls, wire, moduleVars>>

\* ------------------------------------------------ SIM800.remove_pending
\* line 113: self._queue_lock.acquire(), called as in sim800_test.py 22
RemovePending_Acquire(t) ==
    /\ cpc[t] = "timedout"
    /\ ~queue_lock
    /\ queue_lock' = TRUE
    /\ cpc' = [cpc EXCEPT ![t] = "rp_scan"]
    /\ UNCHANGED <<pending, locks, reading, is_open, session, readerVars, seen, decoded,
                   removed, call, cret, ncalls, wire, moduleVars>>

\* lines 114-117: the index remove_pending deletes, 0 for none
RemovePending_Index(q, lock) == FirstIndex({i \in 1..Len(q) : q[i].lock = lock})

\* lines 114-118: delete the entry whose lock is the handle, release the queue lock
RemovePending_Scan(t) ==
    LET i == RemovePending_Index(pending, cret[t].n)
    IN  /\ cpc[t] = "rp_scan"
        /\ IF i = 0
           THEN UNCHANGED <<pending, removed>>
           ELSE /\ pending' = DelAt(pending, i)
                /\ removed' = [removed EXCEPT ![pending[i].lock] = Append(@, "cancel")]
        /\ queue_lock' = FALSE
        /\ cpc' = [cpc EXCEPT ![t] = "idle"]
        /\ UNCHANGED <<locks, reading, is_open, session, readerVars, seen, decoded, call,
                       cret, ncalls, wire, moduleVars>>

\* ------------------------------------------- SIM800.monitor and _reader
\* lines 86-89
Monitor ==
    /\ rpc = "none"
    /\ reading' = TRUE
    /\ rpc' = "loop"
    /\ UNCHANGED <<pending, queue_lock, locks, is_open, session, rline, rcmd, rbound,
                   rexc, unhandled, decoded, removed, orphans, callerVars, wire, moduleVars>>

\* lines 86-89, called when a thread was started before: a new thread is
\* started whatever became of that one, and self._reader_thread refers to the
\* new one; the old thread, here between two lines, runs on
Monitor_Again ==
    /\ rpc \in {"loop", "readline", "exited", "dead"}
    /\ rpc \in {"loop", "readline"} => orphans < MaxOrphans
    /\ reading' = TRUE
    /\ orphans' = IF rpc \in {"loop", "readline"} THEN orphans + 1 ELSE orphans
    /\ rpc' = "loop"
    /\ rline' = NoLine
    /\ rcmd' = ""
    /\ rbound' = FALSE
    /\ rexc' = ""
    /\ UNCHANGED <<pending, queue_lock, locks, is_open, session, unhandled, decoded,
                   removed, callerVars, wire, moduleVars>>

\* line 92, in a thread that self._reader_thread does not refer to: it ends
\* when it finds the flag cleared or the transport closed
Orphan_Loop ==
    /\ orphans > 0
    /\ ~(reading /\ is_open)
    /\ orphans' = orphans - 1
    /\ UNCHANGED <<pending, queue_lock, locks, reading, is_open, session, rpc, rline,
                   rcmd, rbound, rexc, unhandled, decoded, removed, callerVars, wire,
                   moduleVars>>

\* _reader as it would be if its loop did not test self._reading
Reader_Loop_IgnoresFlag ==
    /\ rpc = "loop"
    /\ rpc' = IF is_open THEN "readline" ELSE "exited"
    /\ UNCHANGED <<pending, queue_lock, locks, reading, is_open, session, rline, rcmd,
                   rbound, rexc, unhandled, decoded, removed, orphans, callerVars, wire, moduleVars>>

\* line 92: the loop condition
Reader_Loop ==
    /\ rpc = "loop"
    /\ rpc' = IF reading /\ is_open THEN "readline" ELSE "exited"
    /\ UNCHANGED <<pending, queue_lock, locks, reading, is_open, session, rline, rcmd,
                   rbound, rexc, unhandled, decoded, removed, orphans, callerVars, wire, moduleVars>>

\* line 95: readline() returns a line, decoded and stripped
Reader_Readline ==
    /\ rpc = "readline"
    /\ rx # <<>>
    /\ rline' = [text |-> Strip(Head(rx).text), re |-> Head(rx).re,
                  late |-> Head(rx).late]
    /\ rx' = Tail(rx)
    /\ rpc' = "classify"
    /\ UNCHANGED <<pending, queue_lock, locks, reading, is_open, session, rcmd, rbound,
                   rexc, unhandled, decoded, removed, orphans, callerVars, wire, answered, nunsol>>

\* line 95: readline() times out with nothing read; the empty line falls through
\* lines 98 and 106
Reader_ReadTimeout ==
    /\ rpc = "readline"
    /\ rx = <<>>
    /\ rline' = NoLine
    /\ rpc' = "loop"
    /\ UNCHANGED <<pending, queue_lock, locks, reading, is_open, session, rcmd, rbound,
                   rexc, unhandled, decoded, removed, orphans, callerVars, wire, moduleVars>>

\* lines 98-107: "" when the line is dropped, else the command handed to process()
Classify(line, q) ==
    IF Len(line) > 0 /\ (Contains(line, " ") \/ line = "OK")
    THEN LET line0 == Split(line, " ")[1]
         IN  IF line0 \in Keywords(q) \/ Inner(line0) \in COMMANDS
             THEN line0 ELSE ""
    ELSE IF "+CIFSR:" \in Keywords(q) /\ Len(Split(line, ".")) = 4
    THEN "+CIFSR:" ELSE ""

\* line 102: the lines that are dropped without a message
Noise == {"OK", "ERROR", "Call Ready", "SMS Ready"}

\* lines 98-103: the line is printed as unhandled by _reader(); only a line of
\* the first branch (it has a space or is 'OK') gets to line 102
LogsUnhandled(line, q) ==
    /\ Len(line) > 0 /\ (Contains(line, " ") \/ line = "OK")
    /\ Classify(line, q) = ""
    /\ line \notin Noise

\* lines 98-107
Reader_Classify ==
    /\ rpc = "classify"
    /\ rcmd' = Classify(rline.text, pending)
    /\ unhandled' = IF LogsUnhandled(rline.text, pending)
                    THEN Append(unhandled, rline.text) ELSE unhandled
    /\ rpc' = IF rcmd' = "" THEN "loop" ELSE "process"
    /\ rline' = IF rcmd' = "" THEN NoLine ELSE rline
    /\ UNCHANGED <<pending, queue_lock, locks, reading, is_open, session, rbound,
                   rexc, decoded, removed, orphans, callerVars, wire, moduleVars>>

\* lines 121 and 133-137: the test of the pending keywords is made before the
\* queue lock is taken; an unsolicited line is decoded by a fresh descriptor;
\* a line that is neither is printed as unhandled by process()
Reader_Process ==
    /\ rpc = "process"
    /\ IF rcmd \in Keywords(pending)
       THEN /\ rpc' = "acquire"
            /\ UNCHANGED <<session, rexc, rline, rcmd, unhandled>>
       ELSE IF Inner(rcmd) \in COMMANDS
       THEN LET r == Process(Inner(rcmd), rline.text, session)
            IN  /\ session' = r.sess
                /\ rexc' = r.exc
                /\ rpc' = IF r.exc = "" THEN "loop" ELSE "dead"
                /\ rline' = IF r.exc = "" THEN NoLine ELSE rline
                /\ rcmd' = IF r.exc = "" THEN "" ELSE rcmd
                /\ unhandled' = unhandled
       ELSE /\ rpc' = "loop"
            /\ rline' = NoLine
            /\ rcmd' = ""
            /\ unhandled' = Append(unhandled, rline.text)
            /\ UNCHANGED <<session, rexc>>
    /\ UNCHANGED <<pending, queue_lock, locks, reading, is_open, rbound, decoded,
                   removed, orphans, callerVars, wire, moduleVars>>

\* line 122: self._queue_lock.acquire()
Reader_Acquire ==
    /\ rpc = "acquire"
    /\ ~queue_lock
    /\ queue_lock' = TRUE
    /\ rpc' = "match"
    /\ UNCHANGED <<pending, locks, reading, is_open, session, rline, rcmd, rbound,
                   rexc, unhandled, decoded, removed, orphans, callerVars, wire, moduleVars>>

\* process() as it would be if it took the front entry whatever its keyword
MatchIndex_Front(q, command) == IF Len(q) > 0 THEN 1 ELSE 0

\* process() as it would be if it took the last entry that has the keyword
MatchIndex_Last(q, command) ==
    LET S == {i \in 1..Len(q) : q[i].keyword = command}
    IN  IF S = {} THEN 0 ELSE CHOOSE i \in S : \A j \in S : i >= j

\* lines 123-125: the index of the entry process() completes, 0 for none
MatchIndex(q, command) == FirstIndex({i \in 1..Len(q) : q[i].keyword = command})

\* lines 123-130: decode with the entry's descriptor, delete the entry, release
\* its lock; a decoder that raises leaves the entry and the queue lock as they are
Reader_Match ==
    LET i == MatchIndex(pending, rcmd)
        r == Process(pending[i].obj, rline.text, session)
    IN  /\ rpc = "match"
        /\ IF i = 0
           THEN /\ rpc' = "release"
                /\ UNCHANGED <<pending, locks, session, rbound, rexc, decoded, removed>>
           ELSE /\ session' = r.sess
                /\ rexc' = r.exc
                /\ IF r.exc # ""
                   THEN /\ rpc' = "dead"
                        /\ UNCHANGED <<pending, locks, rbound, decoded, removed>>
                   ELSE /\ rpc' = "release"
                        /\ rbound' = TRUE
                        /\ decoded' = [decoded EXCEPT ![pending[i].lock] = r.result]
                        /\ pending' = DelAt(pending, i)
                        /\ removed' = [removed EXCEPT ![pending[i].lock] = Append(@, "reader")]
                        /\ locks' = [locks EXCEPT ![pending[i].lock] = "unlocked"]
        /\ UNCHANGED <<queue_lock, reading, is_open, rline, rcmd, unhandled,
                       orphans, callerVars, wire, moduleVars>>

\* lines 131-132: release the queue lock; the return reads name and result,
\* which are unbound when the loop matched nothing
Reader_Release ==
    /\ rpc = "release"
    /\ queue_lock' = FALSE
    /\ rexc' = IF rbound THEN "" ELSE "UnboundLocalError"
    /\ rpc' = IF rbound THEN "loop" ELSE "dead"
    /\ rline' = IF rbound THEN NoLine ELSE rline
    /\ rcmd' = IF rbound THEN "" ELSE rcmd
    /\ rbound' = FALSE
    /\ UNCHANGED <<pending, locks, reading, is_open, session, unhandled, decoded,
                   removed, orphans, callerVars, wire, moduleVars>>

\* ----------------------------------------------------------- SIM800.stop
\* line 140, called by a thread that is between calls, as the scripts do
Stop_Flag(t) ==
    /\ cpc[t] = "idle"
    /\ reading
    /\ reading' = FALSE
    /\ cpc' = [cpc EXCEPT ![t] = "join"]
    /\ UNCHANGED <<pending, queue_lock, locks, is_open, session, readerVars, seen, decoded,
                   removed, call, cret, ncalls, wire, moduleVars>>

\* line 141: join() returns when the reader thread has ended
Stop_Join(t) ==
    /\ cpc[t] = "join"
    /\ rpc \in {"exited", "dead"}
    /\ cpc' = [cpc EXCEPT ![t] = "idle"]
    /\ UNCHANGED <<pending, queue_lock, locks, reading, is_open, session, readerVars, seen,
                   decoded, removed, call, cret, ncalls, wire, moduleVars>>

\* ------------------------------------------ Session State properties
\* sim800_test.py 40, 49, 58: a thread that is between calls reads a property
Read(t, field) ==
    /\ cpc[t] = "idle"
    /\ seen' = [seen EXCEPT ![t] = Getter(field, session, 1)]
    /\ UNCHANGED <<pending, queue_lock, locks, reading, is_open, session, readerVars,
                   decoded, removed, cpc, call, cret, ncalls, wire, moduleVars>>

\* ------------------------------------------------------ the SIM800 module
\* the module answers the written commands in the order they were written
Module_Reply ==
    /\ answered < Len(wire)
    /\ answered' = answered + 1
    /\ \E text \in Replies(wire[answered + 1].cls) :
          rx' = Append(rx, [text |-> text,
                            re |-> IF Descriptor(wire[answered + 1].cls).expected
                                   THEN wire[answered + 1].id ELSE 0,
                            late |-> removed[wire[answered + 1].id] = <<"cancel">>])
    /\ UNCHANGED <<pending, queue_lock, locks, reading, is_open, session, readerVars,
                   decoded, removed, callerVars, wire, nunsol>>

\* the module sends a line no command asked for
Module_Push ==
    /\ nunsol < MaxUnsol
    /\ nunsol' = nunsol + 1
    /\ \E text \in Pushes : rx' = Append(rx, [text |-> text, re |-> 0, late |-> FALSE])
    /\ UNCHANGED <<pending, queue_lock, locks, reading, is_open, session, readerVars,
                   decoded, removed, callerVars, wire, answered>>

Next ==
    \/ \E t \in Callers, in \in CallInputs, return_lock \in BOOLEAN :
          ncalls < MaxCalls /\ AT_Call(t, in, return_lock)
    \/ \E t \in Callers : AT_Acquire(t)
    \/ \E t \in Callers : AT_Write(t)
    \/ \E t \in Callers : AT_Enqueue(t)
    \/ \E t \in Callers : AT_Release(t)
    \/ \E t \in Callers : AT_Wait(t)
    \/ \E t \in Callers : Handle_Acquired(t)
    \/ \E t \in Callers : Handle_Timeout(t)
    \/ \E t \in Callers : Handle_Abandon(t)
    \/ \E t \in Callers : RemovePending_Acquire(t)
    \/ \E t \in Callers : RemovePending_Scan(t)
    \/ Monitor
    \/ Reader_Loop
    \/ Reader_Readline
    \/ Reader_ReadTimeout
    \/ Reader_Classify
    \/ Reader_Process
    \/ Reader_Acquire
    \/ Reader_Match
    \/ Reader_Release
    \/ \E t \in Callers : Stop_Flag(t)
    \/ \E t \in Callers : Stop_Join(t)
    \/ Module_Reply
    \/ Module_Push

Spec == Init /\ [][Next]_vars

\* ------------------------------------------ the reader and one given line
\* the largest RSSI code the module is made to report
MaxCode == 33

\* the largest status number the module is made to report
MaxStat == 6

\* the queues the reader is given: the commands of AT(return_lock=True) calls
\* that one caller made and whose handles it neither waited for nor cancelled
LineQueues ==
    {<<>>, <<"AT">>, <<"CIFSR">>, <<"CSQ">>, <<"AT", "CSQ">>, <<"CREG">>,
     <<"CGATT">>, <<"CIPSTATUS">>, <<"COPS">>}

\* the lines the module is made to send: notifications and noise; addresses
\* and lines that are dotted like one; signal-quality reports with every code
\* of -1..MaxCode and with fragments that are not numbers; registration
\* reports of one, two, three and four fields and attach reports, with every
\* status of -1..MaxStat and with fragments that are not numbers; a
\* connection state and an operator report
Lines ==
    {"RING", "+CFUN: 1", "NORMAL POWER DOWN", "OK", "ERROR", "Call Ready", "SMS Ready",
     "10.0.0.1", "a.b.c.d", "10.0.0", "10.0.0.1.2", "+CSQ: ,0", "+CSQ: x,0", "+CSQ 5,0",
     "+CREG: 1,\"00A1\",\"1F2B\"", "+CREG: 2,1,\"00A1\",\"1F2B\"",
     "+CREG: 0,", "+CREG: x", "+CGATT: ", "+CGATT: x",
     "STATE: IP GPRSACT", "+COPS: 0,0,\"carrier\"", "+COPS: 0"}
    \cup {"+CSQ: " \o IntStr(code) \o ",0" : code \in -1..MaxCode}
    \cup {"+CREG: " \o IntStr(stat) : stat \in -1..MaxStat}
    \cup {"+CREG: 0," \o IntStr(stat) : stat \in -1..MaxStat}
    \cup {"+CGATT: " \o IntStr(stat) : stat \in -1..MaxStat}

\* lines 75-78: the entry AT() appends for the call id of a command
EntryOf(cls, id) ==
    [keyword |-> CallResult(Descriptor(cls)).s, obj |-> cls, lock |-> id]

\* the reader runs, the calls of cmds are written and pending, each lock is
\* locked, and the module, which answered none of them yet, has sent line
LineInit(cmds, line) ==
    /\ pending = [i \in 1..Len(cmds) |-> EntryOf(cmds[i], i)]
    /\ queue_lock = FALSE
    /\ locks = [i \in CallIds |-> IF i <= Len(cmds) THEN "locked" ELSE "none"]
    /\ reading = TRUE
    /\ is_open = TRUE
    /\ session = SessionInit
    /\ rpc = "loop"
    /\ rline = NoLine
    /\ rcmd = ""
    /\ rbound = FALSE
    /\ rexc = ""
    /\ decoded = [i \in CallIds |-> PyNone]
    /\ removed = [i \in CallIds |-> <<>>]
    /\ cpc = [t \in Callers |-> "idle"]
    /\ call = [t \in Callers |-> NoCall]
    /\ cret = [t \in Callers |-> IF t = 1 /\ Len(cmds) > 0 THEN PyLock(Len(cmds)) ELSE PyNone]
    /\ wire = [i \in 1..Len(cmds) |->
                  [bytes |-> Encode(Descriptor(cmds[i]), PyNone, PyNone),
                   cls |-> cmds[i], id |-> i]]
    /\ answered = 0
    /\ rx = <<[text |-> line \o "\r\n", re |-> 0, late |-> FALSE]>>
    /\ ncalls = Len(cmds)
    /\ nunsol = 1
    /\ unhandled = <<>>
    /\ seen = [t \in Callers |-> NoRead]
    /\ orphans = 0

InitLine == \E cmds \in LineQueues, line \in Lines : LineInit(cmds, line)

\* _reader alone: it reads the line, handles it and goes on reading
NextLine ==
    \/ Reader_Loop
    \/ Reader_Readline
    \/ Reader_ReadTimeout
    \/ Reader_Classify
    \/ Reader_Process
    \/ Reader_Acquire
    \/ Reader_Match
    \/ Reader_Release

SpecLine == InitLine /\ [][NextLine]_vars

\* ------------------------- the reader, one given line, and the properties
\* _reader handles the line while the threads that are between calls read
\* the properties of Session State
NextSession ==
    \/ NextLine
    \/ \E t \in Callers, field \in Properties : Read(t, field)

SpecSession == InitLine /\ [][NextSession]_vars

\* --------------------------------------- any calls of monitor() and stop()
\* the threads call monitor() and stop() in any order while the reader threads
\* run and the module sends lines on its own
NextThreads ==
    \/ Monitor
    \/ Monitor_Again
    \/ Orphan_Loop
    \/ Reader_Loop
    \/ Reader_Readline
    \/ Reader_ReadTimeout
    \/ Reader_Classify
    \/ Reader_Process
    \/ \E t \in Callers : Stop_Flag(t)
    \/ \E t \in Callers : Stop_Join(t)
    \/ Module_Push

SpecThreads == Init /\ [][NextThreads]_vars

\* ------------------------------- one caller, replies made in send order
\* the reply-expecting calls the caller makes; it takes the lock as a handle,
\* so it can send the next command before the last one is answered
OrderInputs == {in \in CallInputs : in.command \in {"AT", "CREG?"}}

\* one thread calls AT(return_lock=True) and waits on each handle with a
\* timeout; the module sends one reply for each command, in the order the
\* commands were written, and nothing else
NextOrder ==
    \/ \E in \in OrderInputs : ncalls < MaxOrderCalls /\ AT_Call(1, in, TRUE)
    \/ AT_Acquire(1)
    \/ AT_Write(1)
    \/ AT_Enqueue(1)
    \/ AT_Release(1)
    \/ Handle_Acquired(1)
    \/ Handle_Timeout(1)
    \/ Handle_Abandon(1)
    \/ Monitor
    \/ NextLine
    \/ Module_Reply

SpecOrder == Init /\ [][NextOrder]_vars

\* --------------------------------- one caller and a transport that fails
\* the caller of NextOrder, which may also cancel after a timeout, with a
\* transport whose write and flush may raise
NextFault ==
    \/ NextOrder
    \/ RemovePending_Acquire(1)
    \/ RemovePending_Scan(1)
    \/ AT_WriteFails(1)
    \/ AT_FlushFails(1)

SpecFault == Init /\ [][NextFault]_vars

\* ------------------- blocking calls, a fair reader and well-formed replies
\* execute calls over a whole run of blocking callers
MaxLiveCalls == 2

\* the reply lines that every decoder parses
WellFormed == {"OK\r\n", "+CREG: 0,1\r\n"}

\* the module answers the next written command with a well-formed line
Module_ReplyWellFormed ==
    /\ Module_Reply
    /\ rx'[Len(rx')].text \in WellFormed

\* the steps of a caller inside AT()
AT_Steps(t) ==
    AT_Acquire(t) \/ AT_Write(t) \/ AT_Enqueue(t) \/ AT_Release(t) \/ AT_Wait(t)

\* the callers make default-mode calls of reply-expecting commands, monitor()
\* was called once and stop() is not called, and the module sends one
\* well-formed reply for each command, in the order the commands were
\* written, and nothing else
NextLive ==
    \/ \E t \in Callers, in \in OrderInputs :
          ncalls < MaxLiveCalls /\ AT_Call(t, in, FALSE)
    \/ \E t \in Callers : AT_Steps(t)
    \/ Monitor
    \/ NextLine
    \/ Module_ReplyWellFormed

\* every thread that can take a step takes one in the end: the reader, each
\* caller inside AT(), and the module with a command left to answer
SpecLive ==
    /\ Init
    /\ [][NextLive]_vars
    /\ WF_vars(NextLine)
    /\ WF_vars(Module_ReplyWellFormed)
    /\ \A t \in Callers : WF_vars(AT_Steps(t))

\* ------------------------------------------- one caller, every argument
\* the largest integer passed as params
MaxParam == 10

\* execute calls of the one caller whose arguments are varied
MaxEncodeCalls == 1

\* the arguments one caller passes to AT(): names with and without the query
\* mark, params of every shape (absent, integers from 0, the query mark, a
\* string, the empty string, lists of one and of three strings) and data
\* (absent, empty, a body)
EncodeInputs ==
    [command : {"AT", "ATE0", "CSQ", "CREG?", "CIPMUX", "CSTT"},
     params : {PyNone, PyStr("?"), PyStr("h2g2"), PyStr(""),
               PyList(<<"h2g2">>), PyList(<<"h2g2", "user", "pw">>)}
              \cup {PyInt(n) : n \in 0..MaxParam},
     data : {PyNone, PyStr(""), PyStr("hello")}]

\* one thread calls AT() once, in either mode, and AT() runs up to its return
\* or to its wait for the reply; the module sends nothing
NextEncode ==
    \/ \E in \in EncodeInputs, return_lock \in BOOLEAN :
          ncalls < MaxEncodeCalls /\ AT_Call(1, in, return_lock)
    \/ AT_Acquire(1)
    \/ AT_Write(1)
    \/ AT_Enqueue(1)
    \/ AT_Release(1)
    \/ Monitor

SpecEncode == Init /\ [][NextEncode]_vars

\* ------------------------------------------------------------ properties
\* the exceptions a decoder raises on a line it cannot parse
DecodeErrors == {"ValueError", "IndexError", "KeyError"}

\* the position on the wire of the command a call wrote, 0 before it is written
WirePos(id) ==
    IF \E i \in 1..Len(wire) : wire[i].id = id
    THEN CHOOSE i \in 1..Len(wire) : wire[i].id = id
    ELSE 0

\* the reply keyword of the command a call wrote
KeywordOfCall(id) == Descriptor(wire[WirePos(id)].cls).keyword

\* the calls whose entries are in the pending queue
PendingLocks == {pending[i].lock : i \in 1..Len(pending)}

\* C1: whenever the reader classifies a line the module sent in answer to a
\* reply-expecting call, that call's entry has already been enqueued
C1_EnqueuePrecedesClassify ==
    (rpc \in {"classify", "process"} /\ rline.re # 0) => locks[rline.re] # "none"

\* C2: once remove_pending has removed an entry, its lock is never released, and
\* the reader is not ended by processing a line that bears that entry's keyword
\* (a reader ended by a decode error is the subject of C3 and is not counted here)
C2_CancelBeforeMatch ==
    [][\A id \in CallIds :
          removed[id] = <<"cancel">> =>
             /\ locks'[id] = "locked"
             /\ (rpc # "dead" /\ rcmd = KeywordOfCall(id))
                   => ~(rpc' = "dead" /\ rexc' \notin DecodeErrors)]_vars

\* C3: no line ends the reader with a decode error, and the reader's loop is
\* left only after stop() cleared the flag or the transport was closed
C3_ReaderNeverAborts ==
    /\ ~(rpc = "dead" /\ rexc \in DecodeErrors)
    /\ rpc = "exited" => (~reading \/ ~is_open)

\* the decoders that parse an integer, and the value each is documented to
\* fall back to
IntDecoders == {"CSQ", "CREG", "CGATT"}

Sentinel(cls) ==
    CASE cls = "CSQ" -> PyPair(99, "Unknown")
      [] cls = "CREG" -> PyPair(4, "Unknown")
      [] OTHER -> PyPair(-1, "Unknown")

\* the part of a reply line that the decoder of cls hands to int()
StatusField(cls, line) ==
    LET creg == Split(DropStr(line, 7), ",")
    IN  CASE cls = "CSQ" -> Split(DropStr(line, 6), ",")[1]
          [] cls = "CREG" -> IF Len(creg) \in {2, 4} THEN creg[2] ELSE creg[1]
          [] OTHER -> DropStr(line, 8)

\* C4: when the line the reader matches to a pending entry cannot be parsed by
\* the entry's decoder, the reader goes on, the result is the decoder's sentinel,
\* the entry leaves the queue and its lock is released
C4_MalformedReplyCompletes ==
    [][(/\ rpc = "match"
        /\ rpc' # "match"
        /\ MatchIndex(pending, rcmd) # 0
        /\ pending[MatchIndex(pending, rcmd)].obj \in IntDecoders
        /\ ~ParseInt(StatusField(pending[MatchIndex(pending, rcmd)].obj, rline.text)).ok)
       => LET e == pending[MatchIndex(pending, rcmd)]
          IN  /\ rpc' = "release"
              /\ decoded'[e.lock] = Sentinel(e.obj)
              /\ e.lock \notin {pending'[i].lock : i \in 1..Len(pending')}
              /\ locks'[e.lock] = "unlocked"]_vars

\* a step in which the reader releases the lock of the call id
Completes(id) == locks[id] = "locked" /\ locks'[id] = "unlocked"

\* the index in the pending queue of the entry of the call id, 0 for none
PendingPos(id) ==
    IF id \in PendingLocks
    THEN CHOOSE i \in 1..Len(pending) : pending[i].lock = id
    ELSE 0

\* line 99 and line 107: the keyword the reader derives for a line
KeywordOfLine(line) ==
    IF Contains(line, " ") \/ line = "OK" THEN Split(line, " ")[1] ELSE "+CIFSR:"

InCritical == {t \in Callers : cpc[t] \in {"write", "enqueue", "flush", "rp_scan"}}

\* text ends with the two characters CR LF
EndsWithCRLF(text) == Len(text) >= 2 /\ SubSeq(text, Len(text) - 1, Len(text)) = "\r\n"

\* C7: at most one caller is between acquiring and releasing the queue lock and
\* the lock is then held; every write is one complete command, "AT...", CR LF;
\* the entries of the pending queue are in the order of their commands on the wire
C7_NoInterleavedWrites ==
    /\ Cardinality(InCritical) <= 1
    /\ InCritical # {} => (queue_lock /\ rpc \notin {"match", "release"})
    /\ \A i \in 1..Len(wire) :
          /\ StartsWith(wire[i].bytes, "AT")
          /\ EndsWithCRLF(wire[i].bytes)
          /\ \A j \in 1..Len(wire) : wire[i].id = wire[j].id => i = j
    /\ \A i, j \in 1..Len(pending) :
          i < j => /\ WirePos(pending[i].lock) # 0
                   /\ WirePos(pending[i].lock) < WirePos(pending[j].lock)

\* two callers race: one holds the queue lock with its command written and its
\* entry enqueued, the other waits for the lock
C7_Witness ==
    \E t, u \in Callers :
       /\ cpc[t] = "flush"
       /\ cpc[u] = "acquire"
       /\ Len(wire) = 1
       /\ Len(pending) = 1

\* C8: an entry leaves the queue at most once, by remove_pending or by the
\* reader, a cancelled entry's lock stays locked, and when the reader, holding
\* the queue lock, acts on its observation that an entry has the line's
\* keyword, that observation still holds
C8_CancelExcludesMatch ==
    /\ \A id \in CallIds :
          /\ Len(removed[id]) <= 1
          /\ removed[id] = <<"cancel">> => locks[id] = "locked"
    /\ rpc = "match" => rcmd \in Keywords(pending)

\* a step in which a default-mode AT() of a reply-expecting command returns
ReturnsBlocking(t) ==
    /\ call[t].id # 0
    /\ call'[t].id = 0
    /\ ~call[t].return_lock
    /\ Descriptor(call[t].command).expected

\* C9: when a default-mode AT() of a reply-expecting command returns, the reader
\* has deleted the entry of that call and released its lock, and the entry is
\* not in the pending queue
C9_BlocksUntilMatched ==
    [][\A t \in Callers :
          ReturnsBlocking(t) =>
             /\ removed[call[t].id] = <<"reader">>
             /\ locks[call[t].id] = "unlocked"
             /\ call[t].id \notin PendingLocks
             /\ call[t].id \notin {pending'[i].lock : i \in 1..Len(pending')}]_vars

\* the only call made was a default-mode AT() of a reply-expecting command, and
\* it has returned
C9_Witness ==
    /\ ncalls = 1
    /\ Len(wire) = 1
    /\ Descriptor(wire[1].cls).expected
    /\ \A t \in Callers : cpc[t] = "idle"
    /\ \E t \in Callers : cret[t] = PyBool(FALSE)

\* C10: a default-mode AT() of a reply-expecting command returns the result the
\* reader decoded for its entry; with return_lock it returns the lock of the
\* entry it enqueued
C10_ReturnValue ==
    [][\A t \in Callers :
          (call[t].id # 0 /\ call'[t].id = 0 /\ Descriptor(call[t].command).expected)
             => cret'[t] = IF call[t].return_lock
                           THEN PyLock(call[t].id)
                           ELSE decoded[call[t].id]]_vars

\* the entry the reader's scan of lines 123-125 finds for its line
Matched == pending[MatchIndex(pending, rcmd)]

\* a step of the reader's scan in which it found an entry for its line
MatchesEntry == rpc = "match" /\ rpc' # "match" /\ MatchIndex(pending, rcmd) # 0

\* C11: a lock is created locked and stays locked while its entry is in the
\* pending queue; the engine releases it at most once (a released lock is never
\* locked and released again), and exactly once when the reader's scan finds
\* its entry for a line; once it is released, a caller waiting on it, in AT()
\* or on the handle, goes on at once
C11_SingleUseSignal ==
    /\ [](\A i \in 1..Len(pending) : locks[pending[i].lock] = "locked")
    /\ [](\A t \in Callers :
             /\ (cpc[t] = "wait" /\ locks[call[t].id] = "unlocked") => ENABLED AT_Wait(t)
             /\ (cpc[t] = "handle" /\ locks[cret[t].n] = "unlocked")
                   => ENABLED Handle_Acquired(t))
    /\ [][/\ \A id \in CallIds : locks[id] = "unlocked" => locks'[id] = "unlocked"
          /\ \A id \in CallIds : Len(removed'[id]) <= 1
          /\ MatchesEntry => locks'[Matched.lock] = "unlocked"]_vars

\* a step in which process() decodes the reader's line as unsolicited: its
\* keyword names a registered command and no pending entry has it
DecodesUnsolicited ==
    /\ rpc = "process"
    /\ rpc' # "process"
    /\ rcmd \notin Keywords(pending)
    /\ Inner(rcmd) \in COMMANDS

\* the registration status a '+CREG: ...' line carries: the parsed status field,
\* 4 when it does not parse or is outside 0..5
RegStatusOf(line) ==
    LET p == ParseInt(StatusField("CREG", line))
    IN  IF p.ok /\ p.v \in 0..5 THEN p.v ELSE 4

\* C12: when process() takes a line as unsolicited, the line is decoded and the
\* reader goes on, a '+CREG:' line makes reg_status the status it carries, and
\* the pending queue and every lock are left as they were
C12_UnsolicitedDispatch ==
    [][DecodesUnsolicited =>
          /\ rpc' = "loop"
          /\ Inner(rcmd) = "CREG"
                => session'.reg_status = PyInt(RegStatusOf(rline.text))
          /\ pending' = pending
          /\ locks' = locks]_vars

\* every value AT() returns for a registered command (line 84)
RegisteredOutcomes ==
    {AT_ReturnValue(return_lock, pending_lock) :
        return_lock \in BOOLEAN,
        pending_lock \in {PyNone} \cup {PyLock(id) : id \in CallIds}}

\* a step in which AT() is called with a name that is not in the registry
CallsUnknown == ncalls' = ncalls + 1 /\ cpc' = cpc

\* C13: AT() with an unregistered name reports an error to its caller, an outcome
\* no call of a registered command has, and writes nothing, enqueues nothing and
\* leaves the queue lock, the pending queue and Session State as they were
C13_UnknownCommand ==
    [][CallsUnknown =>
          /\ \E t \in Callers : cret'[t] \notin RegisteredOutcomes
          /\ wire' = wire
          /\ pending' = pending
          /\ locks' = locks
          /\ queue_lock' = queue_lock
          /\ session' = session]_vars

\* the registered commands whose descriptor expects no reply
NoReply == {cls \in COMMANDS : ~Descriptor(cls).expected}

\* the caller t is inside AT() for a command that expects no reply
FireAndForget(t) == call[t].id # 0 /\ call[t].command \in NoReply

\* C14: ATE0, CSTT, CIPMUX and CIICR are the commands that expect no reply; an
\* AT() of one of them, in either mode, never waits on a lock, creates no lock
\* and has no entry in the pending queue; each of its steps leaves the queue and
\* the locks as they are; and it returns straight after the flush, with its
\* command written, False in default mode and None with return_lock
C14_FireAndForget ==
    /\ [](/\ NoReply = {"ATE0", "CSTT", "CIPMUX", "CIICR"}
          /\ \A cls \in NoReply : ~Truthy(CallResult(Descriptor(cls)))
          /\ \A t \in Callers :
                FireAndForget(t) =>
                   /\ cpc[t] # "wait"
                   /\ locks[call[t].id] = "none"
                   /\ call[t].id \notin PendingLocks
          /\ \A i \in 1..Len(wire) :
                wire[i].cls \in NoReply =>
                   /\ locks[wire[i].id] = "none"
                   /\ wire[i].id \notin PendingLocks)
    /\ [][\A t \in Callers :
             (FireAndForget(t) /\ cpc'[t] # cpc[t]) =>
                /\ pending' = pending
                /\ locks' = locks
                /\ call'[t].id = 0 =>
                      /\ cpc[t] = "flush"
                      /\ cpc'[t] = "idle"
                      /\ WirePos(call[t].id) # 0
                      /\ wire[WirePos(call[t].id)].cls = call[t].command
                      /\ cret'[t] = IF call[t].return_lock
                                    THEN PyNone ELSE PyBool(FALSE)]_vars

\* the only call made was a default-mode AT('ATE0'); it has returned False with
\* its command written, no entry enqueued and no lock created
C14_Witness ==
    /\ ncalls = 1
    /\ Len(wire) = 1
    /\ wire[1].cls \in NoReply
    /\ pending = <<>>
    /\ \A id \in CallIds : locks[id] = "none"
    /\ \A t \in Callers : cpc[t] = "idle"
    /\ \E t \in Callers : cret[t] = PyBool(FALSE)

\* the token of a line before its first space
FirstToken(line) == Split(line, " ")[1]

\* a line of exactly four dot-separated fields that are all numbers
AddressShaped(line) ==
    LET fields == Split(line, ".")
    IN  /\ Len(fields) = 4
        /\ \A i \in 1..4 : Len(fields[i]) > 0 /\ DigitsVal(fields[i], 0) >= 0

\* a line that matches neither a pending entry's keyword nor a registered
\* command and is not an address a pending entry awaits
UnrecognizedLine(line, q) ==
    /\ line # ""
    /\ FirstToken(line) \notin Keywords(q)
    /\ Inner(FirstToken(line)) \notin COMMANDS
    /\ ~("+CIFSR:" \in Keywords(q) /\ AddressShaped(line))

\* C15: the reader drops an unrecognized line and leaves the pending queue, the
\* locks and Session State as they were; it prints the line as unhandled,
\* unless the line is one of OK, ERROR, 'Call Ready', 'SMS Ready', which it
\* drops without printing anything
C15_UnrecognizedLine ==
    [][(rpc = "classify" /\ rpc' # "classify" /\ UnrecognizedLine(rline.text, pending)) =>
          /\ rpc' = "loop"
          /\ pending' = pending
          /\ locks' = locks
          /\ session' = session
          /\ unhandled' = IF rline.text \in Noise
                          THEN unhandled ELSE Append(unhandled, rline.text)]_vars

\* the caller t is inside the call id, or holds its lock as a handle it still
\* waits on or cancels
Owns(t, id) ==
    \/ call[t].id = id
    \/ cpc[t] \in {"handle", "timedout", "rp_scan"} /\ cret[t] = PyLock(id)

\* the entry of the call id is pending and its caller has gone on after a
\* timeout without calling remove_pending
Abandoned(id) == id \in PendingLocks /\ \A t \in Callers : ~Owns(t, id)

\* C16: an entry whose caller timed out and did not cancel stays in the pending
\* queue, locked, until the reader completes it; a line that bears its keyword
\* is taken to process() and to the scan of the queue, and the scan that finds
\* the entry for the line removes it and releases its lock
C16_TimeoutWithoutCancel ==
    [][\A id \in CallIds :
          Abandoned(id) =>
             /\ id \in PendingLocks' \/ Completes(id)
             /\ id \in PendingLocks' => (locks'[id] = "locked" /\ Abandoned(id)')
             /\ (rpc = "classify" /\ rpc' # rpc /\ FirstToken(rline.text) = KeywordOfCall(id))
                   => rpc' = "process"
             /\ (rpc = "process" /\ rpc' # rpc /\ rcmd = KeywordOfCall(id))
                   => rpc' = "acquire"
             /\ (MatchesEntry /\ Matched.lock = id)
                   => (Completes(id) /\ id \notin PendingLocks')]_vars

\* C17: while the reader handles a line that the module sent in answer to a
\* call whose entry had been cancelled before, the reader releases no lock and
\* removes no entry from the pending queue
C17_LateReplyUnmatched ==
    [][(rline.late /\ rpc \in {"classify", "process", "acquire", "match"}) =>
          \A id \in CallIds :
             /\ ~Completes(id)
             /\ removed'[id] # removed[id] => removed'[id] = <<"cancel">>]_vars

\* the reader thread has ended
ReaderEnded == rpc \in {"exited", "dead"}

\* how far the reader is from the end of its loop once the flag is cleared
StepsLeft(at) ==
    CASE at = "readline" -> 7 [] at = "classify" -> 6 [] at = "process" -> 5
      [] at = "acquire" -> 4 [] at = "match" -> 3 [] at = "release" -> 2
      [] at = "loop" -> 1 [] OTHER -> 0

\* a step of a caller that holds the queue lock, up to its release
CriticalStep(t) ==
    AT_Write(t) \/ AT_Enqueue(t) \/ AT_Release(t) \/ RemovePending_Scan(t)

\* C18: once stop() has cleared the flag the reader starts no further read, so
\* it handles at most the line it is reading; each of its steps brings it
\* nearer to the end of its thread; where a step of it waits for something, at
\* readline() and at the queue lock, it can take the step (a readline() with no
\* line returns on the transport's timeout) unless a caller holds the queue
\* lock, and that caller can go on to release it; an ended reader stays ended; stop() can return when the reader has ended, and returns only then;
\* the steps of stop() leave the pending queue and the locks as they are; and
\* once the reader has ended no lock is released, so a caller blocked on one
\* stays blocked
C18_Shutdown ==
    /\ [](~reading =>
             /\ rpc = "loop" => ENABLED Reader_Loop
             /\ rpc = "readline" => ENABLED (Reader_Readline \/ Reader_ReadTimeout)
             /\ rpc = "classify" => ENABLED Reader_Classify
             /\ rpc = "acquire" =>
                   \/ ENABLED Reader_Acquire
                   \/ \E t \in InCritical : ENABLED CriticalStep(t)
             /\ rpc = "release" => ENABLED Reader_Release)
    /\ [](\A t \in Callers : (cpc[t] = "join" /\ ReaderEnded) => ENABLED Stop_Join(t))
    /\ [][/\ (~reading /\ rpc # "readline") => rpc' # "readline"
          /\ (~reading /\ rpc # "none" /\ rpc' # rpc) => StepsLeft(rpc') < StepsLeft(rpc)
          /\ ReaderEnded => rpc' = rpc
          /\ ReaderEnded => \A id \in CallIds : ~Completes(id)
          /\ \A t \in Callers :
                /\ (cpc[t] = "join" /\ cpc'[t] # "join") => ReaderEnded
                /\ (cpc'[t] # cpc[t] /\ "join" \in {cpc[t], cpc'[t]})
                      => (pending' = pending /\ locks' = locks)
                /\ (ReaderEnded /\ cpc[t] = "wait" /\ locks[call[t].id] = "locked")
                      => cpc'[t] = "wait"]_vars

\* stop() has returned while a default-mode AT() is still blocked on its lock
\* and its entry is still pending
C18_Witness ==
    /\ ~reading
    /\ rpc = "exited"
    /\ \E t, u \in Callers :
          /\ cpc[t] = "idle"
          /\ cpc[u] = "wait"
          /\ locks[call[u].id] = "locked"
          /\ call[u].id \in PendingLocks

\* C19: readline() hands the reader the lines in the order the module sent
\* them, and when the reader releases the lock of a call, no call whose command
\* was written later has had its lock released already
C19_CompletionOrder ==
    [][/\ (rpc = "readline" /\ rpc' = "classify") =>
             (rline'.text = Strip(Head(rx).text) /\ rx' = Tail(rx))
       /\ \A id, later \in CallIds :
             (Completes(id) /\ WirePos(later) > WirePos(id))
                => locks[later] # "unlocked"]_vars

\* the fixed table of signal-quality codes
CSQ_Table(code) ==
    CASE code = 0 -> PyPair(0, "<= -115 dBm")
      [] code = 1 -> PyPair(1, "-111 dBm")
      [] code \in 2..30 -> PyPair(code, IntStr(2 * code - 114) \o " dBm")
      [] code = 31 -> PyPair(31, ">= -52 dBm")
      [] OTHER -> PyPair(99, "Unknown")

\* what a line decodes to: the table's pair for the code after '+CSQ: ', and
\* (99, 'Unknown') when the prefix is missing or the fragment is not a number
CSQ_Expected(line) ==
    LET p == ParseInt(StatusField("CSQ", line))
    IN  IF StartsWith(line, "+CSQ: ") /\ p.ok THEN CSQ_Table(p.v)
        ELSE PyPair(99, "Unknown")

\* C20: decoding a '+CSQ:' line never ends the reader, and the result the
\* reader has just decoded for a CSQ entry is the pair the fixed table gives
\* for the line: (code, label) for the codes 0..31, (99, 'Unknown') for every
\* other code and for a fragment that is not a number
C20_SignalQualityDecode ==
    /\ ~(rpc = "dead" /\ rcmd = "+CSQ:")
    /\ \A id \in CallIds :
          (rpc = "release" /\ rbound /\ removed[id] = <<"reader">>
              /\ wire[WirePos(id)].cls = "CSQ")
             => decoded[id] = CSQ_Expected(rline.text)

\* a step in which a decoder of class cls decodes the reader's line: for the
\* entry the scan found, or for no entry when the line is unsolicited
Decodes(cls) ==
    \/ MatchesEntry /\ Matched.obj = cls
    \/ DecodesUnsolicited /\ Inner(rcmd) = cls

\* the label of each registration status
CREG_Table(status) ==
    CASE status = 0 -> "Not searching for network"
      [] status = 1 -> "Registered, home network"
      [] status = 2 -> "Searching for network"
      [] status = 3 -> "Registration denied"
      [] status = 5 -> "Registered, roaming"
      [] OTHER -> "Unknown"

\* C21: decoding a '+CREG: ' line writes to reg_status the status the line
\* carries (field 1 of 2 or 4 fields, field 0 otherwise; 4 when the field is
\* not a number or is outside 0..5) in the one step that processes the line,
\* the reader goes on, the result decoded for a pending entry is the pair of
\* that status and its label, and reg_status is always unset or in 0..5
C21_RegistrationDecode ==
    /\ [](session.reg_status \in {PyNone} \cup {PyInt(status) : status \in 0..5})
    /\ [][Decodes("CREG") =>
             /\ rpc' # "dead"
             /\ session'.reg_status = PyInt(RegStatusOf(rline.text))
             /\ MatchesEntry =>
                   decoded'[Matched.lock] =
                      PyPair(RegStatusOf(rline.text),
                             CREG_Table(RegStatusOf(rline.text)))]_vars

\* the attach status a '+CGATT: ' line carries: the integer after the prefix,
\* -1 when it is not a number
AttachStatusOf(line) ==
    LET p == ParseInt(StatusField("CGATT", line))
    IN  IF p.ok THEN p.v ELSE -1

\* the label of each attach status
CGATT_Table(status) ==
    CASE status = 0 -> "Detached" [] status = 1 -> "Attached" [] OTHER -> "Unknown"

\* C22: decoding a '+CGATT: ' line writes to gprs_status the integer the line
\* carries, -1 when it is not a number, the reader goes on, the result decoded
\* for a pending entry is the pair of that status and its label, and
\* gprs_status is always unset or one of -1, 0, 1
C22_AttachDecode ==
    /\ [](session.gprs_status \in {PyNone, PyInt(-1), PyInt(0), PyInt(1)})
    /\ [][Decodes("CGATT") =>
             /\ rpc' # "dead"
             /\ session'.gprs_status = PyInt(AttachStatusOf(rline.text))
             /\ MatchesEntry =>
                   decoded'[Matched.lock] =
                      PyPair(AttachStatusOf(rline.text),
                             CGATT_Table(AttachStatusOf(rline.text)))]_vars

\* the command text of a name: a name that begins with AT stands as it is,
\* any other name follows 'AT+'
WireName(name) == IF StartsWith(name, "AT") THEN name ELSE "AT+" \o name

\* the wire text documented for the arguments of a call: the name, stripped of
\* a trailing query mark; '?' for a query, nothing for absent params, '=n' for
\* an integer, '="s"' for a string, '="a","b",...' for a list; CR LF; and the
\* data followed by one terminator byte when data is given
WireText(name, params, data) ==
    LET query == Len(name) > 0 /\ CharAt(name, Len(name) - 1) = "?"
        bare == IF query THEN TakeStr(name, Len(name) - 1) ELSE name
        suffix ==
            IF query \/ params = PyStr("?") THEN "?"
            ELSE CASE params.tag = "None" -> ""
                   [] params.tag = "int" -> "=" \o IntStr(params.n)
                   [] params.tag = "str" -> "=\"" \o params.s \o "\""
                   [] OTHER -> "=\"" \o Join("\",\"", params.l) \o "\""
        body == IF data = PyNone THEN "" ELSE data.s \o CtrlZ
    IN  WireName(bare) \o suffix \o "\r\n" \o body

\* C23: the text AT() hands to write() is the documented wire text of the
\* arguments it was called with, and so the same text for the same arguments
C23_Encode ==
    \A t \in Callers :
       cpc[t] \in {"enqueue", "flush", "wait"} =>
          /\ WirePos(call[t].id) # 0
          /\ wire[WirePos(call[t].id)].bytes =
                WireText(call[t].name,
                         IF call[t].name = call[t].command THEN call[t].params ELSE PyNone,
                         call[t].data)

\* C24: a read of any of the five properties, at any time, does not fail and
\* gives the value Session State holds for it: the value a decoder wrote last,
\* or None when none wrote it
C24_Accessors ==
    /\ [](\A t \in Callers : seen[t].exc = "")
    /\ [][\A t \in Callers :
             seen'[t] # seen[t] =>
                seen'[t] = Got(seen'[t].field, session[seen'[t].field])]_vars

\* a line the reader does not take as a keyword line: it has no space and is
\* not OK
Spaceless(line) == line # "" /\ ~Contains(line, " ") /\ line # "OK"

\* C25: the reader takes a line that has no space and is not OK to process()
\* only if an entry with the CIFSR keyword is pending and the line is four
\* dot-separated numbers, and the scan then completes that CIFSR entry and
\* writes the line to ip_address; any other such line is dropped and the
\* pending queue, the locks and Session State stay as they were
C25_AddressShapedReply ==
    [][/\ (rpc = "classify" /\ rpc' # "classify" /\ Spaceless(rline.text)) =>
             IF "+CIFSR:" \in Keywords(pending) /\ AddressShaped(rline.text)
             THEN rpc' = "process" /\ rcmd' = "+CIFSR:"
             ELSE /\ rpc' = "loop"
                  /\ pending' = pending
                  /\ locks' = locks
                  /\ session' = session
       /\ (MatchesEntry /\ Spaceless(rline.text)) =>
             /\ Matched.obj = "CIFSR"
             /\ AddressShaped(rline.text)
             /\ Completes(Matched.lock)
             /\ pending' = DelAt(pending, MatchIndex(pending, rcmd))
             /\ session'.ip_address = PyStr(rline.text)]_vars

\* the reader threads that are running
RunningReaders == orphans + (IF rpc \in {"none", "exited", "dead"} THEN 0 ELSE 1)

\* C26: whatever calls of monitor() and stop() were made, at most one reader
\* thread is running, and stop() returns only when every reader thread that
\* monitor() started has ended
C26_SingleReader ==
    /\ [](RunningReaders <= 1)
    /\ [][\A t \in Callers :
             (cpc[t] = "join" /\ cpc'[t] # "join") => RunningReaders = 0]_vars

\* C27: the queue lock is held only by a thread that is between acquiring and
\* releasing it: a caller inside AT() or remove_pending(), or the reader inside
\* the scan of process(); so whoever holds it goes on to release it
C27_WriteLockReleased ==
    queue_lock => (InCritical # {} \/ rpc \in {"match", "release"})

\* C28: with a fair reader and a module that answers every reply-expecting
\* command with one well-formed line, in the order the commands were written,
\* every default-mode AT() returns in the end
C28_BlockingCallsReturn ==
    \A t \in Callers :
       (call[t].id # 0 /\ ~call[t].return_lock) ~> (call[t].id = 0)

\* C29: the reader releases the lock of a call only while it handles a line
\* that the module sent in answer to that call's own command
C29_OwnReplyOnly ==
    [][\A id \in CallIds : Completes(id) => rline.re = id]_vars
====
